---------------------------- MODULE Spec2Model ----------------------------
(***************************************************************************)
(* Model of ReadingTime.py, a Streamlit script that estimates the reading  *)
(* time of a multi-chapter work.  The script is run top to bottom: the     *)
(* sidebar widgets, then the three tabs (Chapitres, Pages, CSV detaille).  *)
(*                                                                         *)
(* Python floats are modelled as exact rationals [n, d] in lowest terms    *)
(* (d > 0); math.inf is the record Inf (d = 0).  Floating-point rounding   *)
(* error is outside the model.                                             *)
(***************************************************************************)
EXTENDS Integers, Sequences, FiniteSets, TLC

VARIABLES
    \* --- one call of the helpers (lines 13-29)
    fmt_pc,              \* "ready" | "done" | "idle"
    fmt_arg,             \* total_min, the argument of the helper
    hms,                 \* the triple minutes_to_hms returned
    text,                \* the string format_duration returned
    \* --- position of the script run
    pc,                  \* "chapters" | "pages" | "csv" | "done" | "idle"
    \* --- sidebar widgets (lines 54-85)
    buffer_pct, pause_per_chapter, minutes_per_day,
    \* --- Chapitres tab (lines 90-173)
    avg_min_per_chapter, total_chapters, total_min, low, high, progress,
    days, weeks,
    \* --- Pages tab (lines 176-211)
    speed_min_per_page, total_pages, total_min_pages, low_p, high_p,
    days_p, weeks_p,
    \* --- CSV tab (lines 214-290)
    uploaded, csv_mode, rows, csv_status, total_min_csv, total_pages_csv,
    total_items, fallback_speed, per_ch_pause, low_c, high_c, days_c,
    weeks_c,
    \* --- every format_duration call of the run: <<argument, result>>
    fmt_calls

fmtVars  == <<fmt_pc, fmt_arg, hms, text>>
sideVars == <<buffer_pct, pause_per_chapter, minutes_per_day>>
chapVars == <<avg_min_per_chapter, total_chapters, total_min, low, high,
              progress, days, weeks>>
pageVars == <<speed_min_per_page, total_pages, total_min_pages, low_p,
              high_p, days_p, weeks_p>>
csvVars  == <<uploaded, csv_mode, rows, csv_status, total_min_csv,
              total_pages_csv, total_items, fallback_speed, per_ch_pause,
              low_c, high_c, days_c, weeks_c>>
vars     == <<fmtVars, pc, sideVars, chapVars, pageVars, csvVars, fmt_calls>>

-----------------------------------------------------------------------------
(* Float arithmetic, as exact rationals.                                   *)

Abs(i) == IF i < 0 THEN -i ELSE i

RECURSIVE GCD(_, _)
GCD(a, b) == IF b = 0 THEN a ELSE GCD(b, a % b)

\* n/d in lowest terms with a positive denominator (d # 0)
Norm(n, d) ==
    LET sn == IF d < 0 THEN -n ELSE n
        sd == Abs(d)
        g  == GCD(Abs(sn), sd)
    IN  [n |-> sn \div g, d |-> sd \div g]

R(i)  == [n |-> i, d |-> 1]
Inf   == [n |-> 1, d |-> 0]          \* math.inf
Unset == [n |-> 0, d |-> 0]          \* a name the run has not bound
ZeroDivisionError == [n |-> -1, d |-> 0]   \* what x / 0 raises

IsFinite(a) == a.d > 0

RAdd(a, b) == Norm(a.n * b.d + b.n * a.d, a.d * b.d)
RSub(a, b) == Norm(a.n * b.d - b.n * a.d, a.d * b.d)
RMul(a, b) == Norm(a.n * b.n, a.d * b.d)
\* a / b: raises for b = 0; inf / b stays inf for a positive finite b
RDiv(a, b) ==
    IF b.n = 0 THEN ZeroDivisionError
    ELSE IF a = Inf THEN Inf
    ELSE Norm(a.n * b.d, a.d * b.n)
RLe(a, b)  == a.n * b.d <= b.n * a.d
RLt(a, b)  == a.n * b.d < b.n * a.d
RMax(a, b) == IF RLe(a, b) THEN b ELSE a
RMin(a, b) == IF RLe(a, b) THEN a ELSE b
IsZero(a)  == a.n = 0 /\ a.d > 0

\* Python 3 round(x) to an integer: nearest, ties to the even neighbour
Round(a) ==
    LET q == a.n \div a.d
        r == a.n % a.d
    IN  IF 2 * r < a.d THEN q
        ELSE IF 2 * r > a.d THEN q + 1
        ELSE IF q % 2 = 0 THEN q ELSE q + 1

-----------------------------------------------------------------------------
(* Helpers, lines 13-35.                                                   *)

\* faulty variant: int(total_min * 60), truncating instead of rounding
minutes_to_hms_truncating(total_min_) ==
    LET x == RMul(total_min_, R(60))
        total_sec == x.n \div x.d
    IN  <<total_sec \div 3600, (total_sec % 3600) \div 60, total_sec % 60>>

minutes_to_hms(total_min_) ==
    LET total_sec == Round(RMul(total_min_, R(60)))
        h == total_sec \div 3600
        m == (total_sec % 3600) \div 60
        s == total_sec % 60
    IN  <<h, m, s>>

\* faulty variant: the seconds are appended whenever they are not zero
format_duration_with_seconds(total_min_) ==
    LET t  == minutes_to_hms(total_min_)
        hh == IF t[1] # 0 THEN ToString(t[1]) \o " h " ELSE ""
        mm == IF t[2] # 0 THEN ToString(t[2]) \o " min " ELSE ""
    IN  hh \o mm \o ToString(t[3]) \o " s"

\* " ".join(parts)
RECURSIVE Join(_, _)
Join(parts, sep) ==
    IF parts = <<>> THEN ""
    ELSE IF Len(parts) = 1 THEN parts[1]
    ELSE parts[1] \o sep \o Join(Tail(parts), sep)

format_duration(total_min_) ==
    LET t  == minutes_to_hms(total_min_)
        h  == t[1]
        m  == t[2]
        s  == t[3]
        p1 == IF h # 0 THEN <<ToString(h) \o " h">> ELSE <<>>
        p2 == IF m # 0 THEN <<ToString(m) \o " min">> ELSE <<>>
        p3 == IF h = 0 /\ m = 0 THEN <<ToString(s) \o " s">> ELSE <<>>
    IN  Join(p1 \o p2 \o p3, " ")

clamp(x, lo, hi) == RMax(lo, RMin(hi, x))

\* a / b if b else default
safe_div(a, b, default) == IF IsZero(b) THEN default ELSE RDiv(a, b)

-----------------------------------------------------------------------------
(* The estimate: "Calcul principal" and the projection, lines 147-170.     *)

\* faulty variant: the low bound clamped into [0, total]
LowBoundClamped(total, pct) ==
    clamp(RMul(total, RSub(R(1), RDiv(R(pct), R(100)))), R(0), total)

\* faulty variant: the high bound computed with the low bound's sign
HighBoundMinus(total, pct) ==
    RMul(total, RSub(R(1), RDiv(R(pct), R(100))))

\* lines 151-152 (and 196-197, 277-278): the band around the estimate
LowBound(total, pct)  == RMul(total, RSub(R(1), RDiv(R(pct), R(100))))
HighBound(total, pct) == RMul(total, RAdd(R(1), RDiv(R(pct), R(100))))

\* faulty variant: the division without its guard
DaysUnguarded(total, mpd) == RDiv(total, R(mpd))

\* lines 169, 207, 286: total / minutes_per_day if minutes_per_day > 0
\* else math.inf
Days(total, mpd) == IF mpd > 0 THEN RDiv(total, R(mpd)) ELSE Inf

\* lines 170, 208, 287
Weeks(d) == RDiv(d, R(7))

\* faulty variant: the pause added once, not per unit
TotalMinPauseOnce(avg, pause, units) == RAdd(RMul(avg, R(units)), pause)

\* line 148-149
TotalMin(avg, pause, units) == RMul(RAdd(avg, pause), R(units))

\* line 145: int(round(volumes * ch_per_vol))
TotalFromVolumes(volumes, ch_per_vol) == Round(RMul(R(volumes), ch_per_vol))

\* line 162: clamp(total_chapters / max(total_chapters, 1), 0, 1)
Progress(units) ==
    clamp(RDiv(R(units), R(IF units > 1 THEN units ELSE 1)), R(0), R(1))

\* one format_duration call, as recorded in fmt_calls
Shown(x) == <<x, format_duration(x)>>

-----------------------------------------------------------------------------
(* Bounds of the model.                                                    *)

\* the helpers are called on every multiple of a quarter of a second up to
\* this many quarters (a little over two hours)
MaxQuarterSeconds == 29000

\* arguments of the helper calls: k/240 minutes, and the 60 hours of the
\* documentation's example
FmtInputs == {Norm(k, 240) : k \in 0..MaxQuarterSeconds} \cup {R(3600)}

-----------------------------------------------------------------------------
(* Values of the variables a specification leaves alone.                   *)

FmtIdle ==
    /\ fmt_pc = "idle" /\ fmt_arg = Unset /\ hms = <<0, 0, 0>> /\ text = ""

ChapUnset ==
    /\ avg_min_per_chapter = Unset /\ total_chapters = 0
    /\ total_min = Unset /\ low = Unset /\ high = Unset
    /\ progress = Unset /\ days = Unset /\ weeks = Unset

PageUnset ==
    /\ speed_min_per_page = Unset /\ total_pages = 0
    /\ total_min_pages = Unset /\ low_p = Unset /\ high_p = Unset
    /\ days_p = Unset /\ weeks_p = Unset

CsvUnset ==
    /\ uploaded = <<>> /\ csv_mode = "unset" /\ rows = <<>>
    /\ csv_status = "none"
    /\ total_min_csv = Unset /\ total_pages_csv = Unset /\ total_items = 0
    /\ fallback_speed = Unset /\ per_ch_pause = Unset
    /\ low_c = Unset /\ high_c = Unset /\ days_c = Unset /\ weeks_c = Unset

SideUnset ==
    /\ buffer_pct = 0 /\ pause_per_chapter = Unset /\ minutes_per_day = 0

-----------------------------------------------------------------------------
(* The helpers called on their own, over FmtInputs.                        *)

InitFmt ==
    /\ fmt_pc = "ready"
    /\ fmt_arg \in FmtInputs
    /\ hms = <<0, 0, 0>>
    /\ text = ""
    /\ pc = "idle"
    /\ SideUnset /\ ChapUnset /\ PageUnset /\ CsvUnset
    /\ fmt_calls = <<>>

CallMinutesToHms ==
    /\ fmt_pc = "ready"
    /\ hms' = minutes_to_hms(fmt_arg)
    /\ fmt_pc' = "hms"
    /\ UNCHANGED <<fmt_arg, text, pc, sideVars, chapVars, pageVars, csvVars,
                   fmt_calls>>

CallFormatDuration ==
    /\ fmt_pc = "hms"
    /\ text' = format_duration(fmt_arg)
    /\ fmt_pc' = "done"
    /\ UNCHANGED <<fmt_arg, hms, pc, sideVars, chapVars, pageVars, csvVars,
                   fmt_calls>>

NextFmt == CallMinutesToHms \/ CallFormatDuration

SpecFmt == InitFmt /\ [][NextFmt]_vars

-----------------------------------------------------------------------------
(* The estimate applied over the whole domain of its contract: signed      *)
(* rates and overheads, a unit count from 0, any percentage, a daily       *)
(* budget from 0.                                                          *)

\* unit counts 0..MaxUnits, and the 100 of the documentation's example
MaxUnits == 3

EngineAvg   == {R(-6), R(0), Norm(1, 10), R(6)}
EnginePause == {R(-1), R(0), Norm(1, 2)}
EngineUnits == (0..MaxUnits) \cup {100}
EnginePct   == {0, 15, 50, 100, 150}
EngineMpd   == {0, 10, 30}

InitEngine ==
    /\ pc = "engine"
    /\ buffer_pct \in EnginePct
    /\ pause_per_chapter \in EnginePause
    /\ minutes_per_day \in EngineMpd
    /\ FmtIdle /\ ChapUnset /\ PageUnset /\ CsvUnset
    /\ fmt_calls = <<>>

\* lines 148-152, 162, 169-170 on the given average and unit count
CalculPrincipal(avg, units) ==
    /\ avg_min_per_chapter' = avg
    /\ total_chapters' = units
    /\ total_min' = TotalMin(avg, pause_per_chapter, units)
    /\ low' = LowBound(total_min', buffer_pct)
    /\ high' = HighBound(total_min', buffer_pct)
    /\ progress' = Progress(units)
    /\ days' = Days(total_min', minutes_per_day)
    /\ weeks' = Weeks(days')

EstimateTotal ==
    /\ pc = "engine"
    /\ \E avg \in EngineAvg, units \in EngineUnits : CalculPrincipal(avg, units)
    /\ pc' = "estimated"
    /\ UNCHANGED <<fmtVars, sideVars, pageVars, csvVars, fmt_calls>>

NextEngine == EstimateTotal

SpecEngine == InitEngine /\ [][NextEngine]_vars

-----------------------------------------------------------------------------
(* One run of the script: sidebar, Chapitres, Pages, CSV.                  *)

\* values the widgets allow (lines 62-85)
SidebarPct   == {0, 50}
SidebarPause == {R(0), Norm(1, 2)}
SidebarMpd   == {30}

Init ==
    /\ pc = "chapters"
    /\ buffer_pct \in SidebarPct
    /\ pause_per_chapter \in SidebarPause
    /\ minutes_per_day \in SidebarMpd
    /\ FmtIdle /\ ChapUnset /\ PageUnset /\ CsvUnset
    /\ fmt_calls = <<>>

\* lines 100-122: the average, and the caption's format_duration call when
\* it is computed from a sample
SampleInputs == {<<1, 0, 0>>, <<5, 1, 0>>}
AvgInputs    == {Norm(1, 10)}

\* lines 132-145: the total number of chapters
TotalInputs  == {100}
VolumeInputs == {<<3, Norm(21, 2)>>}

ChaptersResults(avg, units, caption) ==
    /\ CalculPrincipal(avg, units)
    /\ fmt_calls' = fmt_calls \o caption \o
          << Shown(RAdd(avg, pause_per_chapter)), Shown(total_min'),
             Shown(low'), Shown(high') >>

ChaptersTab ==
    /\ pc = "chapters"
    /\ \E units \in TotalInputs
             \cup {TotalFromVolumes(v[1], v[2]) : v \in VolumeInputs} :
          \/ \E smp \in SampleInputs :
                LET avg == safe_div(R(smp[2] * 60 + smp[3]), R(smp[1]), R(0))
                IN  ChaptersResults(avg, units, <<Shown(avg)>>)
          \/ \E avg \in AvgInputs : ChaptersResults(avg, units, <<>>)
    /\ pc' = "pages"
    /\ UNCHANGED <<fmtVars, sideVars, pageVars, csvVars>>

\* line 192: st.session_state.get('_dummy_pages_per_chapter', 30); the key
\* is never set
PagesPerChapter == 30

\* pages_read, h2, m2, total_pages (lines 182-191)
PageInputs == {<<60, 1, 0, 1200>>, <<1, 0, 0, 1>>}

PagesTab ==
    /\ pc = "pages"
    /\ \E inp \in PageInputs :
          LET total_min_sample == inp[2] * 60 + inp[3]
              speed == safe_div(R(total_min_sample), R(inp[1]), R(0))
              avg_with_pause_page ==
                  RAdd(speed, RDiv(pause_per_chapter,
                                   RMax(R(1), R(PagesPerChapter))))
          IN  /\ speed_min_per_page' = speed
              /\ total_pages' = inp[4]
              /\ total_min_pages' = RMul(R(inp[4]), avg_with_pause_page)
    /\ low_p' = LowBound(total_min_pages', buffer_pct)
    /\ high_p' = HighBound(total_min_pages', buffer_pct)
    /\ fmt_calls' = fmt_calls \o
          <<Shown(total_min_pages'), Shown(low_p'), Shown(high_p')>>
    /\ days_p' = Days(total_min_pages', minutes_per_day)
    /\ weeks_p' = Weeks(days_p')
    /\ pc' = "csv"
    /\ UNCHANGED <<fmtVars, sideVars, chapVars, csvVars>>

-----------------------------------------------------------------------------
(* CSV tab, lines 214-290.                                                 *)
(* A cell is a sequence of characters; a dict value is a record            *)
(* [kind, chars] with kind "str", "None" (DictReader's restval), "list"    *)
(* (the surplus cells under DictReader's restkey None) or "int" (the 0     *)
(* that r.get defaults to).                                                *)

Str(chars) == [kind |-> "str", chars |-> chars]
NoneValue  == [kind |-> "None", chars |-> <<>>]
ListValue  == [kind |-> "list", chars |-> <<>>]
IntZero    == [kind |-> "int", chars |-> <<>>]
RestKey    == "None"

DigitChars == <<"0", "1", "2", "3", "4", "5", "6", "7", "8", "9">>
IsDigit(c) == \E i \in 1..10 : DigitChars[i] = c
DigitVal(c) == (CHOOSE i \in 1..10 : DigitChars[i] = c) - 1
AllDigits(cs) == \A i \in 1..Len(cs) : IsDigit(cs[i])

RECURSIVE DigitsValue(_)
DigitsValue(cs) ==
    IF cs = <<>> THEN 0
    ELSE DigitsValue(SubSeq(cs, 1, Len(cs) - 1)) * 10 + DigitVal(cs[Len(cs)])

RECURSIVE Pow10(_)
Pow10(k) == IF k = 0 THEN 1 ELSE 10 * Pow10(k - 1)

\* float(x) of line 248 / 255: [exc, val].  A string parses as
\* [sign] digits [. digits]; any other string is a ValueError; None and a
\* list are a TypeError.
Float(v) ==
    IF v.kind = "int" THEN [exc |-> "none", val |-> R(0)]
    ELSE IF v.kind # "str" THEN [exc |-> "TypeError", val |-> Unset]
    ELSE
      LET cs    == v.chars
          neg   == cs # <<>> /\ cs[1] = "-"
          body  == IF cs # <<>> /\ cs[1] \in {"-", "+"} THEN Tail(cs) ELSE cs
          dots  == {i \in 1..Len(body) : body[i] = "."}
          dot   == IF dots = {} THEN Len(body) + 1 ELSE CHOOSE i \in dots : TRUE
          ip    == SubSeq(body, 1, dot - 1)
          fp    == SubSeq(body, dot + 1, Len(body))
          ok    == /\ Cardinality(dots) <= 1
                   /\ AllDigits(ip) /\ AllDigits(fp)
                   /\ Len(ip) + Len(fp) > 0
          mag   == Norm(DigitsValue(ip) * Pow10(Len(fp)) + DigitsValue(fp),
                        Pow10(Len(fp)))
      IN  IF ~ok THEN [exc |-> "ValueError", val |-> Unset]
          ELSE [exc |-> "none",
                val |-> IF neg THEN RSub(R(0), mag) ELSE mag]

\* csv.DictReader (lines 234-235): one dict per data line, keyed by the
\* header; a short line is filled with None, the surplus of a long line
\* goes under the key None
DictRow(header, line) ==
    LET keys == {header[i] : i \in 1..Len(header)}
               \cup (IF Len(line) > Len(header) THEN {RestKey} ELSE {})
        \* dict(zip(...)): a later column of the same name wins
        Col(k) == CHOOSE i \in 1..Len(header) :
                     /\ header[i] = k
                     /\ \A j \in 1..Len(header) : header[j] = k => j <= i
    IN  [k \in keys |->
            IF k = RestKey THEN ListValue
            ELSE IF Col(k) <= Len(line) THEN Str(line[Col(k)])
            ELSE NoneValue]

DictReader(upl) ==
    [i \in 1..Len(upl.lines) |-> DictRow(upl.header, upl.lines[i])]

\* faulty variant: the identifier column is not asked for
ValidNoIdentifier(rs) ==
    \A i \in 1..Len(rs) :
        "page_count" \in DOMAIN rs[i] \/ "minutes" \in DOMAIN rs[i]

\* line 236
Valid(rs) ==
    \A i \in 1..Len(rs) :
        /\ "chapitre" \in DOMAIN rs[i]
        /\ ("page_count" \in DOMAIN rs[i] \/ "minutes" \in DOMAIN rs[i])

\* r.get(key, 0)
Get(r, key) == IF key \in DOMAIN r THEN r[key] ELSE IntZero

\* lines 247-250 / 254-257: try: float(...) except ValueError: 0
CellValue(r, key) ==
    LET f == Float(Get(r, key))
    IN  IF f.exc = "ValueError" THEN [exc |-> "none", val |-> R(0)] ELSE f

\* lines 240-258: the loop over the rows, from row i with the totals so far
RECURSIVE RowLoop(_, _, _, _)
RowLoop(rs, mode, i, acc) ==
    IF i > Len(rs) THEN acc
    ELSE
      LET key == IF mode = "pages" THEN "page_count" ELSE "minutes"
          c   == CellValue(rs[i], key)
          cnt == [acc EXCEPT !.total_items = @ + 1]
      IN  IF c.exc # "none" THEN [cnt EXCEPT !.exc = c.exc]
          ELSE IF mode = "pages"
          THEN RowLoop(rs, mode, i + 1,
                       [cnt EXCEPT !.total_pages_csv = RAdd(@, c.val)])
          ELSE RowLoop(rs, mode, i + 1,
                       [cnt EXCEPT !.total_min_csv = RAdd(@, c.val)])

LoopStart ==
    [exc |-> "none", total_min_csv |-> R(0), total_pages_csv |-> R(0),
     total_items |-> 0]

\* data lines per uploaded file: 0..MaxRows
MaxRows == 2

\* the uploaded files: a header line and up to MaxRows data lines, already
\* split into cells
Headers == { <<"chapitre", "minutes">>, <<"chapitre", "page_count">>,
             <<"chapitre">>, <<"id", "minutes">> }
ValueCells == { <<"2", "0">>, <<"1", ".", "5">>, <<"b", "a", "d">>, <<>>,
                <<"-", "5">> }
Lines == { <<(<<"1">>)>> }
         \cup { <<(<<"1">>), v>> : v \in ValueCells }
         \cup { <<(<<"1">>), (<<"2", "0">>), (<<"x">>)>> }
Files == { [header |-> hd, lines |-> ls] :
             hd \in Headers,
             ls \in UNION { [1..n -> Lines] : n \in 0..MaxRows } }

\* lines 261-273: the two widgets of the pages mode
FallbackSpeeds == {Norm(1, 100), Norm(1, 5)}
RowPauses      == {pause_per_chapter, R(1)}

\* line 275
PagesTotal(pages, speed, items, pause) ==
    RAdd(RMul(pages, speed), RMul(R(items), pause))

\* lines 277-290 on the total
CsvResults(total) ==
    /\ total_min_csv' = total
    /\ low_c' = LowBound(total, buffer_pct)
    /\ high_c' = HighBound(total, buffer_pct)
    /\ fmt_calls' = fmt_calls \o <<Shown(total), Shown(low_c'), Shown(high_c')>>
    /\ days_c' = Days(total, minutes_per_day)
    /\ weeks_c' = Weeks(days_c')

CsvTab ==
    /\ pc = "csv"
    /\ csv_mode' \in {"pages", "minutes"}
    /\ \/ \* uploaded is None
          /\ uploaded' = <<>>
          /\ pc' = "done"
          /\ UNCHANGED <<rows, csv_status, total_min_csv, total_pages_csv,
                         total_items, fallback_speed, per_ch_pause, low_c,
                         high_c, days_c, weeks_c, fmt_calls>>
       \/ \E file \in Files :
            /\ uploaded' = <<file>>
            /\ rows' = DictReader(file)
            /\ IF ~Valid(rows')
               THEN \* line 238: st.error
                    /\ csv_status' = "schema_error"
                    /\ pc' = "done"
                    /\ UNCHANGED <<total_min_csv, total_pages_csv,
                                   total_items, fallback_speed,
                                   per_ch_pause, low_c, high_c, days_c,
                                   weeks_c, fmt_calls>>
               ELSE LET l == RowLoop(rows', csv_mode', 1, LoopStart)
                    IN  /\ total_pages_csv' = l.total_pages_csv
                        /\ total_items' = l.total_items
                        /\ IF l.exc # "none"
                           THEN \* an uncaught exception ends the run
                                /\ csv_status' = l.exc
                                /\ total_min_csv' = l.total_min_csv
                                /\ pc' = "crashed"
                                /\ UNCHANGED <<fallback_speed, per_ch_pause,
                                               low_c, high_c, days_c,
                                               weeks_c, fmt_calls>>
                           ELSE /\ csv_status' = "ok"
                                /\ pc' = "done"
                                /\ IF csv_mode' = "pages"
                                   THEN \E speed \in FallbackSpeeds,
                                           pause \in RowPauses :
                                          /\ fallback_speed' = speed
                                          /\ per_ch_pause' = pause
                                          /\ CsvResults(PagesTotal(
                                                l.total_pages_csv, speed,
                                                l.total_items, pause))
                                   ELSE /\ CsvResults(l.total_min_csv)
                                        /\ UNCHANGED <<fallback_speed,
                                                       per_ch_pause>>
    /\ UNCHANGED <<fmtVars, sideVars, chapVars, pageVars>>

Next == ChaptersTab \/ PagesTab \/ CsvTab

Spec == Init /\ [][Next]_vars

-----------------------------------------------------------------------------
(* The same run with the daily budget over the whole domain of the         *)
(* projection's contract (minutes per day >= 0; the slider itself starts   *)
(* at 10).                                                                 *)

BudgetMpd == {0, 10, 300}

InitBudget ==
    /\ pc = "chapters"
    /\ buffer_pct = 15
    /\ pause_per_chapter = Norm(1, 2)
    /\ minutes_per_day \in BudgetMpd
    /\ FmtIdle /\ ChapUnset /\ PageUnset /\ CsvUnset
    /\ fmt_calls = <<>>

SpecBudget == InitBudget /\ [][Next]_vars

-----------------------------------------------------------------------------
(* Properties of the helpers (under SpecFmt).                              *)

\* C1: for every non-negative total_min, minutes_to_hms returns (h, m, s)
\* with h >= 0, 0 <= m < 60, 0 <= s < 60, and h*3600 + m*60 + s is an
\* integer nearest to total_min * 60 (at most half a second away).
C1_HmsDecomposition ==
    fmt_pc \in {"hms", "done"} =>
        LET secs == hms[1] * 3600 + hms[2] * 60 + hms[3]
        IN  /\ hms[1] >= 0
            /\ hms[2] \in 0..59
            /\ hms[3] \in 0..59
            /\ 2 * Abs(secs * fmt_arg.d - 60 * fmt_arg.n) <= fmt_arg.d

\* 1 h 0 min 30.5 s: a tie, rounded to 1 h 0 min 30 s
C1_Witness ==
    /\ fmt_pc = "hms"
    /\ hms = <<1, 0, 30>>
    /\ 2 * ((60 * fmt_arg.n) % fmt_arg.d) = fmt_arg.d

\* C2: for every non-negative total_min, format_duration returns a
\* non-empty string: "{h} h" exactly when h > 0, then "{m} min" exactly when
\* m > 0, one space between them, and "{s} s" exactly when h = m = 0; so
\* the seconds are dropped whenever hours or minutes are present, and
\* format_duration(0) is "0 s".
C2_FormatDuration ==
    fmt_pc = "done" =>
        LET h == hms[1]
            m == hms[2]
            s == hms[3]
        IN  /\ text # ""
            /\ (h > 0 /\ m > 0) =>
                   text = ToString(h) \o " h " \o ToString(m) \o " min"
            /\ (h > 0 /\ m = 0) => text = ToString(h) \o " h"
            /\ (h = 0 /\ m > 0) => text = ToString(m) \o " min"
            /\ (h = 0 /\ m = 0) => text = ToString(s) \o " s"
            /\ fmt_arg = R(0) => text = "0 s"
            /\ fmt_arg = R(90) => text = "1 h 30 min"
            /\ fmt_arg = R(3600) => text = "60 h"

\* 1 hour 0 minutes 30 seconds is shown as "1 h"
C2_Witness ==
    /\ fmt_pc = "done"
    /\ hms = <<1, 0, 30>>
    /\ text = "1 h"

-----------------------------------------------------------------------------
(* Properties of the estimate (under SpecEngine).                          *)

\* C3: point = (average + overhead) * units, low = point * (1 - pct/100),
\* high = point * (1 + pct/100); low and high are not clamped, so for
\* pct > 100 and point > 0 low is negative.  Average 6, overhead 0, 100
\* units, 15 % give 600, 510, 690.
C3_EstimateFormulas ==
    pc = "estimated" =>
        LET a == avg_min_per_chapter
            p == pause_per_chapter
        IN  /\ total_min.n * a.d * p.d
                 = (a.n * p.d + p.n * a.d) * total_chapters * total_min.d
            /\ low.n * 100 * total_min.d
                 = total_min.n * (100 - buffer_pct) * low.d
            /\ high.n * 100 * total_min.d
                 = total_min.n * (100 + buffer_pct) * high.d
            /\ IsFinite(total_min) /\ IsFinite(low) /\ IsFinite(high)
            /\ (buffer_pct > 100 /\ total_min.n > 0) => low.n < 0
            /\ (a = R(6) /\ p = R(0) /\ total_chapters = 100 /\ buffer_pct = 15)
                 => (total_min = R(600) /\ low = R(510) /\ high = R(690))

\* 150 % on a positive estimate: the low bound is negative
C3_Witness ==
    /\ pc = "estimated"
    /\ buffer_pct = 150
    /\ total_min = R(600)
    /\ low = R(-300)

\* C4 (as stated): low <= point <= high whenever the percentage is >= 0,
\* for all averages, overheads and unit counts, whatever their sign.
C4_BandOrderedAlways ==
    (pc = "estimated" /\ buffer_pct >= 0) =>
        (RLe(low, total_min) /\ RLe(total_min, high))

\* C4 (amended): whenever the percentage is >= 0, low <= point <= high if
\* point >= 0, and high <= point <= low if point < 0.
C4_BandOrderedBySign ==
    (pc = "estimated" /\ buffer_pct >= 0) =>
        /\ total_min.n >= 0 => (RLe(low, total_min) /\ RLe(total_min, high))
        /\ total_min.n < 0 => (RLe(high, total_min) /\ RLe(total_min, low))

\* a positive estimate strictly inside its band
C4_Witness ==
    /\ pc = "estimated"
    /\ buffer_pct = 15
    /\ total_min.n > 0
    /\ RLt(low, total_min) /\ RLt(total_min, high)

\* C5 (as stated): with 0 units, point = low = high = days = weeks = 0 for
\* every average, overhead, percentage and daily budget >= 0, 0 included.
C5_ZeroUnitsAllZero ==
    (pc = "estimated" /\ total_chapters = 0) =>
        /\ total_min = R(0) /\ low = R(0) /\ high = R(0)
        /\ days = R(0) /\ weeks = R(0)

\* C5 (amended): with 0 units, point = low = high = 0; days = weeks = 0
\* when the daily budget is > 0, and days = weeks = +infinity when it is 0.
C5_ZeroUnits ==
    (pc = "estimated" /\ total_chapters = 0) =>
        /\ total_min = R(0) /\ low = R(0) /\ high = R(0)
        /\ minutes_per_day > 0 => (days = R(0) /\ weeks = R(0))
        /\ minutes_per_day = 0 => (days = Inf /\ weeks = Inf)

\* 0 units at a rate and an overhead that are not 0, 30 minutes a day
C5_Witness ==
    /\ pc = "estimated"
    /\ total_chapters = 0
    /\ avg_min_per_chapter = R(6)
    /\ pause_per_chapter = Norm(1, 2)
    /\ minutes_per_day = 30
    /\ days = R(0)

-----------------------------------------------------------------------------
(* The projection in days and weeks (under SpecBudget).                    *)

\* days and weeks as the projection of total at the daily budget
Projected(total, d, w) ==
    /\ d # ZeroDivisionError /\ w # ZeroDivisionError
    /\ minutes_per_day > 0 =>
          /\ IsFinite(d) /\ IsFinite(w)
          /\ d.n * minutes_per_day * total.d = total.n * d.d
          /\ w.n * 7 * d.d = d.n * w.d
    /\ minutes_per_day = 0 => (d = Inf /\ w = Inf)

\* C6: days = point / minutes_per_day when minutes_per_day > 0 and
\* days = +infinity when minutes_per_day = 0, weeks = days / 7 in both
\* cases; a daily budget of 0 raises no division by zero in any of the
\* three tabs.
C6_Projection ==
    /\ pc \in {"pages", "csv", "done", "crashed"} =>
          Projected(total_min, days, weeks)
    /\ pc \in {"csv", "done", "crashed"} =>
          Projected(total_min_pages, days_p, weeks_p)
    /\ (pc = "done" /\ csv_status = "ok") =>
          Projected(total_min_csv, days_c, weeks_c)

\* a daily budget of 0, all three tabs computed
C6_Witness ==
    /\ pc = "done"
    /\ csv_status = "ok"
    /\ total_items = 2
    /\ minutes_per_day = 0
    /\ days = Inf /\ days_p = Inf /\ days_c = Inf
    /\ weeks = Inf /\ weeks_p = Inf /\ weeks_c = Inf

-----------------------------------------------------------------------------
(* Properties of the CSV tab (under Spec).                                 *)

\* what a row contributes: the number in its cell, 0 for any other cell
\* and for a cell that is not there
Contribution(r, key) ==
    IF key \in DOMAIN r /\ r[key].kind = "str" /\ Float(r[key]).exc = "none"
    THEN Float(r[key]).val
    ELSE R(0)

RECURSIVE NumericSum(_, _)
NumericSum(rs, key) ==
    IF rs = <<>> THEN R(0)
    ELSE RAdd(Contribution(Head(rs), key), NumericSum(Tail(rs), key))

\* the file passed the validation of line 236 and the tab is over
Aggregated(mode) ==
    /\ pc \in {"done", "crashed"}
    /\ uploaded # <<>>
    /\ csv_mode = mode
    /\ csv_status # "schema_error"

\* C7: in the minutes mode the total of a validated file is the sum of its
\* numeric minute values; a row whose value is not numeric or is missing
\* (no such key, an empty cell, a cell a short row leaves unfilled) counts
\* for 0, and no such row aborts the aggregation or raises.
C7_MinutesSum ==
    Aggregated("minutes") =>
        /\ csv_status = "ok"
        /\ total_min_csv = NumericSum(rows, "minutes")

\* C8: in the pages mode the total of a validated file is
\* totalPages * fallbackSpeed + rowCount * perRowOverhead, totalPages the
\* sum of the page values (0 for a value that is not numeric), rowCount the
\* number of rows: the overhead is added once per row, whatever its value.
C8_PagesTotal ==
    Aggregated("pages") =>
        /\ csv_status = "ok"
        /\ total_items = Len(rows)
        /\ total_min_csv =
              RAdd(RMul(NumericSum(rows, "page_count"), fallback_speed),
                   RMul(R(Len(rows)), per_ch_pause))

\* a record lacks the identifier, or both the page count and the minutes
LacksFields(r) ==
    \/ "chapitre" \notin DOMAIN r
    \/ ("page_count" \notin DOMAIN r /\ "minutes" \notin DOMAIN r)

\* C9: the validation covers the whole file before any aggregation: if any
\* record lacks the identifier or lacks both page count and minutes, the
\* file is rejected with a schema error, no row is aggregated and no
\* estimate is produced; rows are aggregated only for files in which
\* every record has an identifier and one of page count or minutes.
C9_SchemaValidation ==
    (pc \in {"done", "crashed"} /\ uploaded # <<>>) =>
        /\ (\E i \in 1..Len(rows) : LacksFields(rows[i])) =>
              /\ csv_status = "schema_error"
              /\ total_items = 0
              /\ total_min_csv = Unset /\ total_pages_csv = Unset
              /\ low_c = Unset /\ high_c = Unset
              /\ days_c = Unset /\ weeks_c = Unset
        /\ (csv_status # "schema_error") =>
              \A i \in 1..Len(rows) : ~LacksFields(rows[i])
        /\ (csv_status = "schema_error") =>
              (\E i \in 1..Len(rows) : LacksFields(rows[i]))

\* a file of two rows without the identifier column is rejected whole
C9_Witness ==
    /\ pc = "done"
    /\ csv_status = "schema_error"
    /\ Len(rows) = 2
    /\ \A i \in 1..2 : "chapitre" \notin DOMAIN rows[i]
                        /\ "minutes" \in DOMAIN rows[i]
    /\ total_items = 0

\* C10: every value passed to format_duration in the run (the average, the
\* estimate, the low and the high bound of the three tabs) is >= 0, under
\* the bounds of the widgets and for any file that passes the validation.
C10_NonNegativeArguments ==
    \A i \in 1..Len(fmt_calls) : fmt_calls[i][1].n >= 0

=============================================================================
